---- MODULE Spec2Model ----
(***************************************************************************)
(* The sensing-and-alerting engine of src/src/App.jsx (component App).     *)
(*                                                                         *)
(* React state (breaches, alerts, acked, temps, dpArr, rackPwr) is written *)
(* through queued updates: a handler, the interval callback and the alert  *)
(* effect only enqueue; the next render applies each hook's queue in       *)
(* order, runs the component body (breachesRef.current = breaches) and,    *)
(* when temps changed, the alert detection effect.  Refs are written at    *)
(* once.  Temperatures are hundredths of a degree, pressures hundredths of *)
(* a pascal, rack power hundredths of a kW, times milliseconds.            *)
(***************************************************************************)
EXTENDS Integers, Sequences, FiniteSets

VARIABLES now, lastTick, temps, dpArr, rackPwr, breaches, alerts, acked,
          breachIdRef, alertIdRef, breachesRef,
          qBreaches, qAlerts, qTicks, qAcked,
          emitted, created, clearedIds, nTicks, nClears, applied,
          cxStep, qCx, cxNexts, cxInduced

\* the engine's variables and the commissioning wizard's
engineVars == <<now, lastTick, temps, dpArr, rackPwr, breaches, alerts, acked,
                breachIdRef, alertIdRef, breachesRef,
                qBreaches, qAlerts, qTicks, qAcked,
                emitted, created, clearedIds, nTicks, nClears, applied>>

cxVars == <<cxStep, qCx, cxNexts, cxInduced>>

vars == <<now, lastTick, temps, dpArr, rackPwr, breaches, alerts, acked,
          breachIdRef, alertIdRef, breachesRef,
          qBreaches, qAlerts, qTicks, qAcked,
          emitted, created, clearedIds, nTicks, nClears, applied,
          cxStep, qCx, cxNexts, cxInduced>>

\* ---- program constants ----
N_SENSORS == 120
N_RACKS == 8
T_BASE == 1920
DP_BASE == 2840
NoiseBound == 10
TickMs == 500
SuppressMs == 9000
LogKeep == 29
AlertDelta == 450
CriticalDelta == 700
SustainMs == 15000
DurMin == 55000
DurSpan == 25000

\* ---- bounds of the model ----
ScenarioTicks == 5
Eps == 13
MaxLive == 7
MaxBreachId == 2
MaxClears == 1
MaxTicks == 4
MaxPending == 2
MaxAcks == 1
LogFill == 29
MaxEmitted == 31

\* the sensors whose readings the model tracks, the positions the controls
\* pass to induce, and the values drawn for Math.random()
Probe == {12, 32, 33}
Positions == {32}
BadPositions == {-1, N_SENSORS}
Ws == {5}
Ints == {900}
Durs == {DurMin}
Gaps == {TickMs, SuppressMs - TickMs}
LongGaps == {TickMs, DurMin - TickMs}
AckIds == {1, 99}
TempNoise == {0}
DpNoise == {0}
RackDraw == {0}

Amps == {0, 50, 100, 101, 300, 689, 690, 699, 700, 701, 1049, 1050, 1100, 1101, 2800, 4200}
Offs == {-100, 0, 300, 900}
Drops == {-50, 0, 400, 1600, 2000}

RelaxOffs == {-10, 0, 11, 300}

RelaxNoise == {-NoiseBound, 0, NoiseBound}

\* the ages of the newest alert at which the caller of the liveness
\* specification induces the next breach
InduceAges == {SuppressMs - TickMs, SuppressMs + 3000}

ScInts == {1200}
ScTempNoise == {-10, 10}
ScDpNoise == {-35, 35}

\* ---- helpers ----
Abs(x) == IF x < 0 THEN -x ELSE x

Min2(a, b) == IF a < b THEN a ELSE b

Max2(a, b) == IF a > b THEN a ELSE b

RECURSIVE SumSeq(_)
SumSeq(s) == IF s = <<>> THEN 0 ELSE Head(s) + SumSeq(Tail(s))

RECURSIVE FilterLiveLate(_, _)
FilterLiveLate(bs, t) ==
  IF bs = <<>> THEN <<>>
  ELSE IF t - Head(bs).t <= Head(bs).dur
       THEN <<Head(bs)>> \o FilterLiveLate(Tail(bs), t)
       ELSE FilterLiveLate(Tail(bs), t)

RECURSIVE FilterLive(_, _)
FilterLive(bs, t) ==
  IF bs = <<>> THEN <<>>
  ELSE IF t - Head(bs).t < Head(bs).dur
       THEN <<Head(bs)>> \o FilterLive(Tail(bs), t)
       ELSE FilterLive(Tail(bs), t)

\* 1000 * exp(-0.5 * (dist / (w * 0.5))^2) for dist < 2w
GaussTable(w) ==
  CASE w = 4 -> <<1000, 882, 607, 325, 135, 44, 11, 2>>
    [] w = 5 -> <<1000, 923, 726, 487, 278, 135, 56, 20, 6, 2>>
    [] w = 6 -> <<1000, 946, 801, 607, 411, 249, 135, 66, 29, 11, 4, 1>>

PlumeOutside(b, i) ==
  LET dist == Abs(i - b.pos)
  IN IF dist > b.w * 2 THEN (b.int * GaussTable(b.w)[1]) \div 1000 ELSE 0

Plume(b, i) ==
  LET dist == Abs(i - b.pos)
  IN IF dist < b.w * 2 THEN (b.int * GaussTable(b.w)[dist + 1]) \div 1000 ELSE 0

\* 100 * (T_BASE + sin(i / 10) * 0.8) for i = 0 .. N_SENSORS - 1, the profile of
\* makeBaseline without its random term
BaselineTable ==
  <<1920, 1928, 1936, 1944, 1951, 1958, 1965, 1972, 1977, 1983, 1987, 1991,
     1995, 1997, 1999, 2000, 2000, 1999, 1998, 1996, 1993, 1989, 1985, 1980,
     1974, 1968, 1961, 1954, 1947, 1939, 1931, 1923, 1915, 1907, 1900, 1892,
     1885, 1878, 1871, 1865, 1859, 1855, 1850, 1847, 1844, 1842, 1841, 1840,
     1840, 1841, 1843, 1846, 1849, 1853, 1858, 1864, 1869, 1876, 1883, 1890,
     1898, 1905, 1913, 1921, 1929, 1937, 1945, 1952, 1960, 1966, 1973, 1978,
     1983, 1988, 1992, 1995, 1997, 1999, 2000, 2000, 1999, 1998, 1995, 1992,
     1988, 1984, 1979, 1973, 1967, 1960, 1953, 1946, 1938, 1930, 1922, 1914,
     1906, 1898, 1891, 1883, 1876, 1870, 1864, 1859, 1854, 1850, 1846, 1843,
     1842, 1840, 1840, 1840, 1842, 1844, 1846, 1850, 1854, 1859, 1865, 1871>>

Baseline(i) == BaselineTable[i + 1]

Sensors == 0..(N_SENSORS - 1)

baselineRef == [i \in Probe |-> Baseline(i)]

baseDpRef == [j \in 0..3 |-> DP_BASE]

NextTempsSlow(prev, live, nz) ==
  [i \in DOMAIN prev |->
     LET target == Baseline(i) + nz
                   + SumSeq([k \in 1..Len(live) |-> Plume(live[k], i)])
     IN (prev[i] * 90 + target * 10) \div 100]

NextTempsFlatBase(prev, live, nz) ==
  [i \in DOMAIN prev |->
     LET target == T_BASE + nz
                   + SumSeq([k \in 1..Len(live) |-> Plume(live[k], i)])
     IN (prev[i] * 68 + target * 32) \div 100]

NextTempsDrift(prev, live, nz) ==
  [i \in DOMAIN prev |->
     LET target == Baseline(i) + nz
                   + SumSeq([k \in 1..Len(live) |-> Plume(live[k], i)])
     IN (prev[i] * 68 + target * 33) \div 100]

NextTemps(prev, live, nz) ==
  [i \in DOMAIN prev |->
     LET target == Baseline(i) + nz
                   + SumSeq([k \in 1..Len(live) |-> Plume(live[k], i)])
     IN (prev[i] * 68 + target * 32) \div 100]

DpDrop(b, j) ==
  LET zone2 == (2 * j + 1) * (N_SENSORS \div 4)
      dist2 == Abs(2 * b.pos - zone2)
      span2 == 2 * (N_SENSORS \div 3)
  IN (Max2(0, span2 - dist2) * b.int * 9) \div (span2 * 14)

NextDp(prev, live, nz) ==
  [j \in 0..3 |->
     LET target == baseDpRef[j] + nz
                   - SumSeq([k \in 1..Len(live) |-> DpDrop(live[k], j)])
     IN (prev[j] * 58 + target * 42) \div 100]

NextRack(prev, draw) ==
  [r \in 1..N_RACKS |-> (prev[r] * 97 + (6500 + draw) * 3) \div 100]

Deltas(ts) == [i \in DOMAIN ts |-> ts[i] - Baseline(i)]

MaxOf(S) == CHOOSE x \in S : \A y \in S : y <= x

MaxDeltaRaw(ts) == LET d == Deltas(ts) IN MaxOf({d[i] : i \in DOMAIN ts})

PeakIdx(ts) ==
  LET d == Deltas(ts)
      m == MaxDeltaRaw(ts)
      peaks == {i \in DOMAIN ts : d[i] = m}
  IN CHOOSE i \in peaks : \A k \in peaks : i <= k

\* ---- the queued updaters ----
NoBreach == [id |-> 0, pos |-> 0, w |-> 0, int |-> 0, dur |-> 0, t |-> 0]

ApplyBreachUpdClearOne(u, prev, t) ==
  IF u.kind = "add" THEN Append(prev, [u.b EXCEPT !.t = t])
  ELSE IF u.kind = "clear" /\ prev # <<>> THEN Tail(prev)
  ELSE u.live

\* setBreaches(prev => [...prev, {...}]) in induce ("add"), setBreaches(live)
\* in the interval callback ("set"), setBreaches([]) in clearAll ("clear")
ApplyBreachUpd(u, prev, t) ==
  IF u.kind = "add" THEN Append(prev, [u.b EXCEPT !.t = t]) ELSE u.live

RECURSIVE FoldBreaches(_, _, _)
FoldBreaches(q, prev, t) ==
  IF q = <<>> THEN prev
  ELSE FoldBreaches(Tail(q), ApplyBreachUpd(Head(q), prev, t), t)

KeepAll(prev) == prev

Keep(prev) == SubSeq(prev, 1, Min2(LogKeep, Len(prev)))

SuppressedOldest(prev, t) == prev # <<>> /\ t - prev[Len(prev)].ts < SuppressMs

SuppressedInclusive(prev, t) == prev # <<>> /\ t - prev[1].ts <= SuppressMs

SuppressedTwice(prev, t) == prev # <<>> /\ t - prev[1].ts < 2 * SuppressMs

Suppressed(prev, t) == prev # <<>> /\ t - prev[1].ts < SuppressMs

AutoLevelOneThreshold(maxDelta) == IF maxDelta > AlertDelta THEN "CRITICAL" ELSE "WARNING"

AutoLevel(maxDelta) == IF maxDelta > CriticalDelta THEN "CRITICAL" ELSE "WARNING"

ApplyAlertUpdAllSuppressed(u, prev, id, t) ==
  IF Suppressed(prev, t) THEN prev
  ELSE <<[id |-> id, ts |-> t,
          lvl |-> IF u.kind = "auto" THEN AutoLevel(u.maxDelta) ELSE u.kind,
          pos |-> u.pos]>> \o Keep(prev)

ApplyAlertUpdRecycledId(u, prev, id, t) ==
  IF u.kind = "auto"
  THEN IF Suppressed(prev, t) THEN prev
       ELSE <<[id |-> id % (LogKeep + 1), ts |-> t, lvl |-> AutoLevel(u.maxDelta),
               pos |-> u.pos]>>
            \o Keep(prev)
  ELSE <<[id |-> id % (LogKeep + 1), ts |-> t, lvl |-> u.kind, pos |-> u.pos]>>
       \o Keep(prev)

ApplyAlertUpdAtTail(u, prev, id, t) ==
  IF u.kind = "auto"
  THEN IF Suppressed(prev, t) THEN prev
       ELSE Keep(prev)
            \o <<[id |-> id, ts |-> t, lvl |-> AutoLevel(u.maxDelta), pos |-> u.pos]>>
  ELSE Keep(prev) \o <<[id |-> id, ts |-> t, lvl |-> u.kind, pos |-> u.pos]>>

\* the three setAlerts updaters; id is alertIdRef.current when the updater runs
ApplyAlertUpd(u, prev, id, t) ==
  IF u.kind = "auto"
  THEN IF Suppressed(prev, t) THEN prev
       ELSE <<[id |-> id, ts |-> t, lvl |-> AutoLevel(u.maxDelta), pos |-> u.pos]>>
            \o Keep(prev)
  ELSE <<[id |-> id, ts |-> t, lvl |-> u.kind, pos |-> u.pos]>> \o Keep(prev)

RECURSIVE FoldAlerts(_, _, _, _)
FoldAlerts(q, prev, id, t) ==
  IF q = <<>> THEN prev
  ELSE FoldAlerts(Tail(q), ApplyAlertUpd(Head(q), prev, id, t), id, t)

\* the alerts a render appends, oldest first (history of the log)
RECURSIVE NewAlerts(_, _, _, _)
NewAlerts(q, prev, id, t) ==
  IF q = <<>> THEN <<>>
  ELSE LET nxt == ApplyAlertUpd(Head(q), prev, id, t)
       IN (IF nxt = prev THEN <<>> ELSE <<nxt[1]>>) \o NewAlerts(Tail(q), nxt, id, t)

RECURSIVE FoldTemps(_, _)
FoldTemps(q, prev) ==
  IF q = <<>> THEN prev ELSE FoldTemps(Tail(q), NextTemps(prev, Head(q).live, Head(q).tn))

RECURSIVE FoldDp(_, _)
FoldDp(q, prev) ==
  IF q = <<>> THEN prev ELSE FoldDp(Tail(q), NextDp(prev, Head(q).live, Head(q).dn))

RECURSIVE FoldRack(_, _)
FoldRack(q, prev) ==
  IF q = <<>> THEN prev ELSE FoldRack(Tail(q), NextRack(prev, Head(q).rd))

\* setCxStep(s => s + 1) in the Next button ("inc"), setCxStep(0) in Restart
ApplyCxUpd(u, prev) == IF u = "inc" THEN prev + 1 ELSE 0

RECURSIVE FoldCx(_, _)
FoldCx(q, prev) ==
  IF q = <<>> THEN prev ELSE FoldCx(Tail(q), ApplyCxUpd(Head(q), prev))

Range(s) == {s[k] : k \in 1..Len(s)}

\* the breaches a render creates (one per "add" updater it runs)
CreatedBy(q, t) == {[u.b EXCEPT !.t = t] : u \in {v \in Range(q) : v.kind = "add"}}

\* the alert detection effect's test on the temps a render commits
ExcursionAny(ts) == MaxDeltaRaw(ts) >= 0

Excursion(ts) == MaxDeltaRaw(ts) > AlertDelta

\* ---- derived metrics (render body) ----
\* Scores are kept as exact numerators: thermalScore in 1/1000, dpScore in
\* 1/6400, rackScore in 1/60000 and bari in 1/BariUnit.
RECURSIVE SumFn(_, _, _)
SumFn(f, lo, hi) ==
  IF lo > hi THEN 0
  ELSE IF lo = hi THEN f[lo]
  ELSE LET mid == (lo + hi) \div 2
       IN SumFn(f, lo, mid) + SumFn(f, mid + 1, hi)

deltas == Deltas(temps)

maxDelta == Max2(0, MaxDeltaRaw(temps))

thermalScoreNoFloor == Min2(1000, maxDelta - 100)

thermalScore == Min2(1000, Max2(0, maxDelta - 100))

\* four times the mean drop
dpDrop == SumFn([j \in 0..3 |-> baseDpRef[j] - dpArr[j]], 0, 3)

dpScore == Min2(6400, Max2(0, dpDrop))

\* a hundred times the mean of temps.slice(10, 110)
rackMean == SumFn(temps, 10, 109)

rackScore == Min2(60000, Max2(0, rackMean - 100 * T_BASE - 10000))

BariUnit == 4800000

bari == Min2(BariUnit, 2400 * thermalScore + 225 * dpScore + 16 * rackScore)

\* Math.round(bari * 100)
bariPct == (200 * bari + BariUnit) \div (2 * BariUnit)

bariLabelInclusive ==
  IF 10 * bari <= 3 * BariUnit THEN "ALL CLEAR"
  ELSE IF 100 * bari <= 55 * BariUnit THEN "ELEVATED"
  ELSE IF 10 * bari <= 8 * BariUnit THEN "HIGH RISK"
  ELSE "CRITICAL"

bariLabel ==
  IF 10 * bari < 3 * BariUnit THEN "ALL CLEAR"
  ELSE IF 100 * bari < 55 * BariUnit THEN "ELEVATED"
  ELSE IF 10 * bari < 8 * BariUnit THEN "HIGH RISK"
  ELSE "CRITICAL"

sysStatus ==
  IF 100 * bari > 55 * BariUnit THEN "BREACH DETECTED"
  ELSE IF 10 * bari > 3 * BariUnit THEN "ELEVATED"
  ELSE "NOMINAL"

\* ---- state after mount ----
Init ==
  /\ now = 0
  /\ lastTick = 0
  /\ temps = baselineRef
  /\ dpArr = baseDpRef
  /\ rackPwr = [r \in 1..N_RACKS |-> 6503]
  /\ breaches = <<>>
  /\ alerts = <<>>
  /\ acked = {}
  /\ breachIdRef = 0
  /\ alertIdRef = 0
  /\ breachesRef = <<>>
  /\ qBreaches = <<>>
  /\ qAlerts = <<>>
  /\ qTicks = <<>>
  /\ qAcked = <<>>
  /\ emitted = <<>>
  /\ created = {}
  /\ clearedIds = {}
  /\ nTicks = 0
  /\ nClears = 0
  /\ applied = <<>>
  /\ cxStep = 0
  /\ qCx = <<>>
  /\ cxNexts = 0
  /\ cxInduced = 0

\* starting arrays for the risk computation: a width-5 plume of peak amp at
\* sensor 32 on top of a uniform offset, and a uniform pressure drop
PlumeShape(amp, off) ==
  [i \in Sensors |->
     Baseline(i) + off
     + Plume([id |-> 0, pos |-> 32, w |-> 5, int |-> amp, dur |-> 0, t |-> 0], i)]

RiskInit ==
  /\ \E amp \in Amps, off \in Offs : temps = PlumeShape(amp, off)
  /\ \E q \in Drops : dpArr = [j \in 0..3 |-> DP_BASE - q]
  /\ now = 0
  /\ lastTick = 0
  /\ rackPwr = [r \in 1..N_RACKS |-> 6503]
  /\ breaches = <<>>
  /\ alerts = <<>>
  /\ acked = {}
  /\ breachIdRef = 0
  /\ alertIdRef = 0
  /\ breachesRef = <<>>
  /\ qBreaches = <<>>
  /\ qAlerts = <<>>
  /\ qTicks = <<>>
  /\ qAcked = <<>>
  /\ emitted = <<>>
  /\ created = {}
  /\ clearedIds = {}
  /\ nTicks = 0
  /\ nClears = 0
  /\ applied = <<>>
  /\ cxStep = 0
  /\ qCx = <<>>
  /\ cxNexts = 0
  /\ cxInduced = 0

\* the state after mount with all 120 sensors, readings at baseline
ScenarioInit ==
  /\ temps = [i \in Sensors |-> Baseline(i)]
  /\ dpArr = baseDpRef
  /\ now = 0
  /\ lastTick = 0
  /\ rackPwr = [r \in 1..N_RACKS |-> 6503]
  /\ breaches = <<>>
  /\ alerts = <<>>
  /\ acked = {}
  /\ breachIdRef = 0
  /\ alertIdRef = 0
  /\ breachesRef = <<>>
  /\ qBreaches = <<>>
  /\ qAlerts = <<>>
  /\ qTicks = <<>>
  /\ qAcked = <<>>
  /\ emitted = <<>>
  /\ created = {}
  /\ clearedIds = {}
  /\ nTicks = 0
  /\ nClears = 0
  /\ applied = <<>>
  /\ cxStep = 0
  /\ qCx = <<>>
  /\ cxNexts = 0
  /\ cxInduced = 0

RelaxInit ==
  /\ \E off \in [Probe -> RelaxOffs] : temps = [i \in Probe |-> Baseline(i) + off[i]]
  /\ dpArr = baseDpRef
  /\ now = 0
  /\ lastTick = 0
  /\ rackPwr = [r \in 1..N_RACKS |-> 6503]
  /\ breaches = <<>>
  /\ alerts = <<>>
  /\ acked = {}
  /\ breachIdRef = 0
  /\ alertIdRef = 0
  /\ breachesRef = <<>>
  /\ qBreaches = <<>>
  /\ qAlerts = <<>>
  /\ qTicks = <<>>
  /\ qAcked = <<>>
  /\ emitted = <<>>
  /\ created = {}
  /\ clearedIds = {}
  /\ nTicks = 0
  /\ nClears = 0
  /\ applied = <<>>
  /\ cxStep = 0
  /\ qCx = <<>>
  /\ cxNexts = 0
  /\ cxInduced = 0

\* ---- actions ----
\* time passes (Date.now() grows)
Advance(d) ==
  /\ now' = now + d
  /\ UNCHANGED <<lastTick, temps, dpArr, rackPwr, breaches, alerts, acked,
                 breachIdRef, alertIdRef, breachesRef, qBreaches, qAlerts,
                 qTicks, qAcked, emitted, created, clearedIds, nTicks, nClears, applied,
                 cxStep, qCx, cxNexts, cxInduced>>

\* the body of induce, without the frame of the caller's own state
induceCore(pos, w, int, dur) ==
  /\ breachIdRef' = breachIdRef + 1
  /\ qBreaches' = Append(qBreaches,
        [kind |-> "add", live |-> <<>>,
         b |-> [id |-> breachIdRef + 1, pos |-> pos, w |-> w, int |-> int,
                dur |-> dur, t |-> 0]])
  /\ alertIdRef' = alertIdRef + 1
  /\ qAlerts' = Append(qAlerts, [kind |-> "BREACH", maxDelta |-> 0, pos |-> pos])
  /\ UNCHANGED <<now, lastTick, temps, dpArr, rackPwr, breaches, alerts, acked,
                 breachesRef, qTicks, qAcked, emitted, created, clearedIds,
                 nTicks, nClears, applied>>

induceHeats(pos, w, int, dur) ==
  /\ breachIdRef' = breachIdRef + 1
  /\ qBreaches' = Append(qBreaches,
        [kind |-> "add", live |-> <<>>,
         b |-> [id |-> breachIdRef + 1, pos |-> pos, w |-> w, int |-> int,
                dur |-> dur, t |-> 0]])
  /\ alertIdRef' = alertIdRef + 1
  /\ qAlerts' = Append(qAlerts, [kind |-> "BREACH", maxDelta |-> 0, pos |-> pos])
  /\ temps' = [i \in DOMAIN temps |->
                 temps[i] + Plume([id |-> 0, pos |-> pos, w |-> w, int |-> int,
                                   dur |-> dur, t |-> 0], i)]
  /\ UNCHANGED <<now, lastTick, dpArr, rackPwr, breaches, alerts, acked,
                 breachesRef, qTicks, qAcked, emitted, created, clearedIds,
                 nTicks, nClears, applied,
                 cxStep, qCx, cxNexts, cxInduced>>

induce(pos, w, int, dur) == induceCore(pos, w, int, dur) /\ UNCHANGED cxVars

clearAllCore ==
  /\ qBreaches' = Append(qBreaches, [kind |-> "clear", live |-> <<>>, b |-> NoBreach])
  /\ alertIdRef' = alertIdRef + 1
  /\ qAlerts' = Append(qAlerts, [kind |-> "CLEAR", maxDelta |-> 0, pos |-> -1])
  /\ clearedIds' = 1..breachIdRef
  /\ nClears' = nClears + 1
  /\ UNCHANGED <<now, lastTick, temps, dpArr, rackPwr, breaches, alerts, acked,
                 breachIdRef, breachesRef, qTicks, qAcked, emitted, created, nTicks, applied>>

clearAll == clearAllCore /\ UNCHANGED cxVars

\* the wizard's Next button, shown while the rendered cxStep < 7: the handler
\* reads the cxStep of the render that created it
cxNext(w, int, dur) ==
  /\ cxStep < 7
  /\ IF cxStep = 3
     THEN induceCore(12, w, int, dur) /\ cxInduced' = cxInduced + 1
     ELSE UNCHANGED engineVars /\ cxInduced' = cxInduced
  /\ qCx' = Append(qCx, "inc")
  /\ cxNexts' = cxNexts + 1
  /\ UNCHANGED cxStep

\* the wizard's Restart button, shown while 0 < cxStep < 7
cxRestart ==
  /\ cxStep > 0
  /\ cxStep < 7
  /\ clearAllCore
  /\ qCx' = Append(qCx, "reset")
  /\ cxNexts' = 0
  /\ cxInduced' = 0
  /\ UNCHANGED cxStep

ackAlertAndClear(id) ==
  /\ qAcked' = Append(qAcked, id)
  /\ qBreaches' = Append(qBreaches, [kind |-> "clear", live |-> <<>>, b |-> NoBreach])
  /\ UNCHANGED <<now, lastTick, temps, dpArr, rackPwr, breaches, alerts, acked,
                 breachIdRef, alertIdRef, breachesRef, qAlerts, qTicks,
                 emitted, created, clearedIds, nTicks, nClears, applied,
                 cxStep, qCx, cxNexts, cxInduced>>

ackAlert(id) ==
  /\ qAcked' = Append(qAcked, id)
  /\ UNCHANGED <<now, lastTick, temps, dpArr, rackPwr, breaches, alerts, acked,
                 breachIdRef, alertIdRef, breachesRef, qBreaches, qAlerts, qTicks,
                 emitted, created, clearedIds, nTicks, nClears, applied,
                 cxStep, qCx, cxNexts, cxInduced>>

\* the setInterval callback, due TickMs after the previous one
Tick(tn, dn, rd) ==
  /\ now - lastTick >= TickMs
  /\ LET live == FilterLive(breachesRef, now)
     IN /\ qBreaches' = Append(qBreaches, [kind |-> "set", live |-> live, b |-> NoBreach])
        /\ qTicks' = Append(qTicks, [live |-> live, at |-> now, tn |-> tn, dn |-> dn, rd |-> rd])
  /\ lastTick' = now
  /\ nTicks' = nTicks + 1
  /\ UNCHANGED <<now, temps, dpArr, rackPwr, breaches, alerts, acked, breachIdRef,
                 alertIdRef, breachesRef, qAlerts, qAcked, emitted, created,
                 clearedIds, nClears, applied,
                 cxStep, qCx, cxNexts, cxInduced>>

RenderDpLate ==
  /\ qBreaches # <<>> \/ qAlerts # <<>> \/ qTicks # <<>> \/ qAcked # <<>> \/ qCx # <<>>
  /\ breaches' = FoldBreaches(qBreaches, breaches, now)
  /\ breachesRef' = breaches'
  /\ alerts' = FoldAlerts(qAlerts, alerts, alertIdRef, now)
  /\ emitted' = emitted \o NewAlerts(qAlerts, alerts, alertIdRef, now)
  /\ temps' = FoldTemps(qTicks, temps)
  /\ dpArr' = dpArr
  /\ rackPwr' = FoldRack(qTicks, rackPwr)
  /\ acked' = acked \cup Range(qAcked)
  /\ created' = created \cup CreatedBy(qBreaches, now)
  /\ applied' = applied \o qTicks
  /\ IF qTicks # <<>> /\ Excursion(temps')
     THEN /\ alertIdRef' = alertIdRef + 1
          /\ qAlerts' = <<[kind |-> "auto", maxDelta |-> MaxDeltaRaw(temps'),
                           pos |-> PeakIdx(temps')]>>
     ELSE /\ alertIdRef' = alertIdRef
          /\ qAlerts' = <<>>
  /\ qBreaches' = <<>>
  /\ qTicks' = <<>>
  /\ qAcked' = <<>>
  /\ cxStep' = FoldCx(qCx, cxStep)
  /\ qCx' = <<>>
  /\ UNCHANGED <<now, lastTick, breachIdRef, clearedIds, nTicks, nClears,
                 cxNexts, cxInduced>>

\* a render: every hook's queue is applied and the body stores
\* breachesRef.current; then, if temps changed, the alert detection effect runs
Render ==
  /\ qBreaches # <<>> \/ qAlerts # <<>> \/ qTicks # <<>> \/ qAcked # <<>> \/ qCx # <<>>
  /\ breaches' = FoldBreaches(qBreaches, breaches, now)
  /\ breachesRef' = breaches'
  /\ alerts' = FoldAlerts(qAlerts, alerts, alertIdRef, now)
  /\ emitted' = emitted \o NewAlerts(qAlerts, alerts, alertIdRef, now)
  /\ temps' = FoldTemps(qTicks, temps)
  /\ dpArr' = FoldDp(qTicks, dpArr)
  /\ rackPwr' = FoldRack(qTicks, rackPwr)
  /\ acked' = acked \cup Range(qAcked)
  /\ created' = created \cup CreatedBy(qBreaches, now)
  /\ applied' = applied \o qTicks
  /\ IF qTicks # <<>> /\ Excursion(temps')
     THEN /\ alertIdRef' = alertIdRef + 1
          /\ qAlerts' = <<[kind |-> "auto", maxDelta |-> MaxDeltaRaw(temps'),
                           pos |-> PeakIdx(temps')]>>
     ELSE /\ alertIdRef' = alertIdRef
          /\ qAlerts' = <<>>
  /\ qBreaches' = <<>>
  /\ qTicks' = <<>>
  /\ qAcked' = <<>>
  /\ cxStep' = FoldCx(qCx, cxStep)
  /\ qCx' = <<>>
  /\ UNCHANGED <<now, lastTick, breachIdRef, clearedIds, nTicks, nClears,
                 cxNexts, cxInduced>>

\* ---- specifications ----
\* Time advances only while no update is pending (a render follows its
\* callbacks within the same millisecond), and a due interval callback runs
\* before time advances again.
Quiet ==
  qBreaches = <<>> /\ qAlerts = <<>> /\ qTicks = <<>> /\ qAcked = <<>> /\ qCx = <<>>

Room == Len(qBreaches) < MaxPending

TimeStep == \E d \in Gaps : Quiet /\ now - lastTick < TickMs /\ Advance(d)

LongTimeStep == \E d \in LongGaps : Quiet /\ now - lastTick < TickMs /\ Advance(d)

InduceStep ==
  \E p \in Positions, w \in Ws, i \in Ints, d \in Durs :
    breachIdRef < MaxBreachId /\ Room /\ induce(p, w, i, d)

BadInduceStep ==
  \E p \in BadPositions, w \in Ws, i \in Ints, d \in Durs :
    breachIdRef < MaxBreachId /\ Room /\ induce(p, w, i, d)

ClearStep == nClears < MaxClears /\ Room /\ clearAll

AckStep ==
  \E id \in AckIds : Cardinality(acked) + Len(qAcked) < MaxAcks /\ ackAlert(id)

TickStep ==
  \E tn \in TempNoise, dn \in DpNoise, rd \in RackDraw :
    nTicks < MaxTicks /\ Room /\ Tick(tn, dn, rd)

\* filling the alert log: induce and clearAll by turns, each rendered at once,
\* until LogFill alerts were emitted; every interleaving from there on
FillInduceStep ==
  \E p \in Positions, w \in Ws, i \in Ints, d \in Durs :
    /\ Len(emitted) < LogFill
    /\ Quiet
    /\ breaches = <<>>
    /\ induce(p, w, i, d)

FillClearStep == Len(emitted) < LogFill /\ Quiet /\ breaches # <<>> /\ clearAll

FullInduceStep ==
  \E p \in Positions, w \in Ws, i \in Ints, d \in Durs :
    /\ Len(emitted) >= LogFill
    /\ Len(emitted) + Len(qAlerts) < MaxEmitted
    /\ Room
    /\ induce(p, w, i, d)

FullClearStep ==
  /\ Len(emitted) >= LogFill
  /\ Len(emitted) + Len(qAlerts) < MaxEmitted
  /\ Room
  /\ clearAll

FullTimeStep == Len(emitted) >= LogFill /\ TimeStep

FullTickStep == Len(emitted) >= LogFill /\ TickStep

Next ==
  \/ TimeStep
  \/ InduceStep
  \/ ClearStep
  \/ TickStep
  \/ Render

Spec == Init /\ [][Next]_vars

NextExpiry ==
  \/ LongTimeStep
  \/ InduceStep
  \/ ClearStep
  \/ TickStep
  \/ Render

SpecExpiry == Init /\ [][NextExpiry]_vars

NextLog ==
  \/ FillInduceStep
  \/ FillClearStep
  \/ FullInduceStep
  \/ FullClearStep
  \/ FullTimeStep
  \/ FullTickStep
  \/ Render

SpecLog == Init /\ [][NextLog]_vars

\* the acknowledge buttons: onAck of the newest or the oldest card of the
\* rendered log, once the log is nearly full
UiAckStep ==
  \E k \in {1, Len(alerts)} :
    /\ Len(emitted) >= LogFill
    /\ alerts # <<>>
    /\ Cardinality(acked) + Len(qAcked) < MaxAcks
    /\ ackAlert(alerts[k].id)

NextUiAck ==
  \/ FillInduceStep
  \/ FillClearStep
  \/ FullInduceStep
  \/ FullClearStep
  \/ FullTimeStep
  \/ FullTickStep
  \/ UiAckStep
  \/ Render

SpecUiAck == Init /\ [][NextUiAck]_vars

\* the commissioning wizard next to the running engine
CxNextStep ==
  \E w \in Ws, i \in Ints, d \in Durs :
    /\ Len(qCx) < MaxPending
    /\ cxStep = 3 => breachIdRef < MaxBreachId
    /\ cxNext(w, i, d)

CxRestartStep == nClears < MaxClears /\ Len(qCx) < MaxPending /\ cxRestart

NextWizard ==
  \/ CxNextStep
  \/ CxRestartStep
  \/ TimeStep
  \/ TickStep
  \/ Render

SpecWizard == Init /\ [][NextWizard]_vars

NextApi ==
  \/ BadInduceStep
  \/ InduceStep
  \/ ClearStep
  \/ Render

SpecApi == Init /\ [][NextApi]_vars

NextAck ==
  \/ AckStep
  \/ TimeStep
  \/ InduceStep
  \/ ClearStep
  \/ TickStep
  \/ Render

SpecAck == Init /\ [][NextAck]_vars

\* one breach at sensor 32 on the full array, every handler rendered before
\* the next callback, ticks TickMs apart with the extreme noise draws
ScTimeStep == Quiet /\ now - lastTick < TickMs /\ Advance(TickMs)

ScInduceStep ==
  \E int \in ScInts, dur \in Durs :
    Quiet /\ breachIdRef = 0 /\ nTicks <= 1 /\ induce(32, 5, int, dur)

ScClearStep == Quiet /\ breaches # <<>> /\ nClears = 0 /\ nTicks >= 3 /\ clearAll

ScTickStep ==
  \E tn \in ScTempNoise, dn \in ScDpNoise, rd \in RackDraw :
    Quiet /\ nTicks < ScenarioTicks /\ Tick(tn, dn, rd)

NextScenario ==
  \/ ScTimeStep
  \/ ScInduceStep
  \/ ScClearStep
  \/ ScTickStep
  \/ Render

SpecScenario == ScenarioInit /\ [][NextScenario]_vars

\* the risk computation on arrays drawn from bounded sets, followed by ticks
\* the temperature part of one interval callback and its render, with no
\* breach in the ref; time is abstracted so that the filter can run forever
RelaxTick(nz) ==
  /\ breachesRef = <<>>
  /\ temps' = NextTemps(temps, FilterLive(breachesRef, now), nz)
  /\ UNCHANGED <<now, lastTick, dpArr, rackPwr, breaches, alerts, acked,
                 breachIdRef, alertIdRef, breachesRef, qBreaches, qAlerts,
                 qTicks, qAcked, emitted, created, clearedIds, nTicks,
                 nClears, applied,
                 cxStep, qCx, cxNexts, cxInduced>>

RelaxStep == \E nz \in RelaxNoise : RelaxTick(nz)

NextRelax == RelaxStep

SpecRelax == RelaxInit /\ [][NextRelax]_vars

\* the interval keeps firing
SpecRelaxFair == SpecRelax /\ WF_vars(RelaxStep)

\* ---- the engine running forever ----
\* Every comparison of the program is between Date.now() and a stored
\* timestamp, so time passing is modelled in the frame of the present: now
\* stays put and every stored timestamp moves back by d (ages saturate at
\* twice the suppression window and at the longest breach duration).  What
\* the engine never reads again is forgotten: only the head of the log is
\* kept (Suppressed reads prev[0] only), ids are renumbered to 0 and the
\* history variables are emptied.
Older(ts, d, cap) == Max2(ts - d, now - cap)

OlderBreaches(bs, d) ==
  [k \in 1..Len(bs) |->
     [bs[k] EXCEPT !.t = Older(bs[k].t, d, DurMin + DurSpan), !.id = 0]]

OlderHead(log, d) ==
  IF log = <<>> THEN <<>>
  ELSE <<[log[1] EXCEPT !.ts = Older(log[1].ts, d, 2 * SuppressMs), !.id = 0]>>

Elapse(d) ==
  /\ lastTick' = lastTick - d
  /\ breaches' = OlderBreaches(breaches, d)
  /\ breachesRef' = OlderBreaches(breachesRef, d)
  /\ alerts' = OlderHead(alerts, d)
  /\ breachIdRef' = 0
  /\ alertIdRef' = 0
  /\ emitted' = <<>>
  /\ applied' = <<>>
  /\ created' = {}
  /\ nTicks' = 0
  /\ UNCHANGED <<now, temps, dpArr, rackPwr, acked, qBreaches, qAlerts, qTicks,
                 qAcked, clearedIds, nClears, cxStep, qCx, cxNexts, cxInduced>>

LiveTimeStep == Quiet /\ now - lastTick < TickMs /\ Elapse(TickMs)

LiveTickStep ==
  \E tn \in TempNoise, dn \in DpNoise, rd \in RackDraw : Quiet /\ Tick(tn, dn, rd)

LiveInduceStep ==
  \E p \in Positions, w \in Ws, i \in Ints, d \in Durs :
    /\ Quiet
    /\ Len(breaches) < MaxLive
    /\ IF alerts = <<>> THEN TRUE ELSE now - alerts[1].ts \in InduceAges
    /\ induce(p, w, i, d)

NextLive ==
  \/ LiveTimeStep
  \/ LiveTickStep
  \/ LiveInduceStep
  \/ Render

\* time passes, the interval keeps firing and React renders what is queued
SpecLive ==
  /\ Init
  /\ [][NextLive]_vars
  /\ WF_vars(LiveTimeStep)
  /\ WF_vars(LiveTickStep)
  /\ WF_vars(Render)

NextRisk ==
  \/ TimeStep
  \/ TickStep
  \/ Render

SpecRisk == RiskInit /\ [][NextRisk]_vars

\* ---- properties ----
IsAuto(a) == a.lvl \in {"WARNING", "CRITICAL"}

Last(q) == q[Len(q)]

CountLvl(log, l) == Cardinality({k \in 1..Len(log) : log[k].lvl = l})

CountKind(q, kd) == Cardinality({k \in 1..Len(q) : q[k].kind = kd})

ActiveIds == {breaches[k].id : k \in 1..Len(breaches)}

AutoPending == qAlerts # <<>> /\ qAlerts[1].kind = "auto"

\* C1 as stated: whenever the active set is read, no breach in it is past
\* createdAt + duration.
C1_NoneActivePastExpiry ==
  \A k \in 1..Len(breaches) : now - breaches[k].t < breaches[k].dur

\* C1 amended: the live set an interval callback computes at time `at` holds no
\* breach with at >= createdAt + duration, and once every callback up to
\* lastTick is rendered the active set holds no breach that had expired by
\* lastTick (expiry takes effect at the first callback after it, not before).
C1_ExpiredDroppedAtTick ==
  /\ \A k \in 1..Len(qTicks) : \A m \in 1..Len(qTicks[k].live) :
       qTicks[k].at - qTicks[k].live[m].t < qTicks[k].live[m].dur
  /\ qTicks = <<>> =>
       \A k \in 1..Len(breaches) : lastTick - breaches[k].t < breaches[k].dur

C1_Witness ==
  \E b \in created :
    /\ b.id \notin clearedIds
    /\ qTicks = <<>>
    /\ lastTick - b.t >= b.dur
    /\ b.id \notin ActiveIds

\* C2: every breach that was created and not removed by clearAll is in the
\* active set as long as now < createdAt + duration.
C2_UnexpiredKept ==
  \A b \in created :
    (b.id \notin clearedIds /\ now < b.t + b.dur) => b.id \in ActiveIds

\* C3: any two auto-alerts (WARNING or CRITICAL) ever appended to the log have
\* timestamps at least 9000 ms apart.
C3_AutoAlertsSpaced ==
  \A i, j \in 1..Len(emitted) :
    (i < j /\ IsAuto(emitted[i]) /\ IsAuto(emitted[j]))
      => emitted[j].ts - emitted[i].ts >= SuppressMs

C3_Witness ==
  /\ \E i, j \in 1..Len(emitted) : i < j /\ IsAuto(emitted[i]) /\ IsAuto(emitted[j])
  /\ alertIdRef > Len(emitted) + Len(qAlerts)

\* C4 as stated: an evaluation that sees maxDelta > 4.5 while no auto-alert was
\* emitted during the preceding 9000 ms appends an auto-alert, whatever BREACH
\* or CLEAR alerts are in the log.
C4_EmitsUnlessRecentAuto ==
  [][(/\ Render
      /\ AutoPending
      /\ \A k \in 1..Len(emitted) :
           IsAuto(emitted[k]) => now - emitted[k].ts >= SuppressMs)
     => (/\ Len(emitted') > Len(emitted)
         /\ IsAuto(emitted'[Len(emitted) + 1]))]_vars

\* C4 amended: an evaluation that sees maxDelta > 4.5 while the log is empty or
\* its most recent alert, of any level, is at least 9000 ms old appends an
\* auto-alert stamped with the current time.
C4_EmitsUnlessRecentAlert ==
  [][(/\ Render
      /\ AutoPending
      /\ (alerts = <<>> \/ now - alerts[1].ts >= SuppressMs))
     => (/\ Len(emitted') > Len(emitted)
         /\ IsAuto(emitted'[Len(emitted) + 1])
         /\ emitted'[Len(emitted) + 1].ts = now
         /\ \E k \in 1..Len(alerts') : alerts'[k] = emitted'[Len(emitted) + 1])]_vars

C4_Witness ==
  \E k \in 2..Len(emitted) :
    /\ IsAuto(emitted[k])
    /\ ~IsAuto(emitted[k - 1])
    /\ emitted[k].ts - emitted[k - 1].ts >= SuppressMs

C7_LogIsNewest30 ==
  /\ Len(alerts) = Min2(LogKeep + 1, Len(emitted))
  /\ \A k \in 1..Len(alerts) : alerts[k] = emitted[Len(emitted) + 1 - k]

C7_Witness == Len(emitted) > LogKeep + 1 /\ Len(alerts) = LogKeep + 1

\* C8: alert ids strictly increase in emission order.
C8_IdsStrictlyIncrease ==
  \A i, j \in 1..Len(emitted) : i < j => emitted[i].id < emitted[j].id

\* C9: an induce with a position outside 0 <= position < N_SENSORS changes
\* nothing (no breach queued, no alert, no counter advanced).
C9_OutOfRangeRejected ==
  [][(\E p \in BadPositions, w \in Ws, i \in Ints, d \in Durs : induce(p, w, i, d))
     => UNCHANGED vars]_vars

\* C10: ackAlert queues nothing but the acknowledgement, and the render that
\* applies it changes only the acknowledged set: breaches, alerts, the three
\* arrays (hence the risk score and classification) and the refs stay as they are.
C10_AckOnlyAcked ==
  [][/\ (Len(qAcked') > Len(qAcked)) =>
          UNCHANGED <<temps, dpArr, rackPwr, breaches, alerts, acked, breachIdRef,
                      alertIdRef, breachesRef, qBreaches, qAlerts, qTicks>>
     /\ (Render /\ qBreaches = <<>> /\ qAlerts = <<>> /\ qTicks = <<>>) =>
          /\ acked' = acked \cup Range(qAcked)
          /\ UNCHANGED <<temps, dpArr, rackPwr, breaches, alerts, breachIdRef,
                         alertIdRef, breachesRef>>]_vars

C10_Witness == acked = {99} /\ alerts # <<>> /\ breaches # <<>>

C12_BariInUnitRange ==
  /\ thermalScore \in 0..1000
  /\ dpScore \in 0..6400
  /\ rackScore \in 0..60000
  /\ bari \in 0..BariUnit
  /\ bari = Max2(0, Min2(BariUnit, 2400 * thermalScore + 225 * dpScore + 16 * rackScore))

C12_Witness ==
  /\ bari = BariUnit
  /\ MaxDeltaRaw(temps) > 4000
  /\ dpDrop > 6400

\* the bands of the classification, in hundredths of bari: lower bound
\* inclusive, upper bound exclusive (bari never exceeds 100 hundredths)
Bands ==
  <<[lo |-> 0, hi |-> 30, name |-> "ALL CLEAR"],
    [lo |-> 30, hi |-> 55, name |-> "ELEVATED"],
    [lo |-> 55, hi |-> 80, name |-> "HIGH RISK"],
    [lo |-> 80, hi |-> 101, name |-> "CRITICAL"]>>

InBand(k) ==
  /\ Bands[k].lo * BariUnit <= 100 * bari
  /\ 100 * bari < Bands[k].hi * BariUnit

\* C13: bari falls in exactly one of the bands [0,0.30), [0.30,0.55),
\* [0.55,0.80), [0.80,1.0] and the classification is that band's name.
C13_OneBandPerBari ==
  \E k \in 1..4 :
    /\ InBand(k)
    /\ bariLabel = Bands[k].name
    /\ \A m \in 1..4 : InBand(m) => m = k

C13_Witness == 100 * bari = 30 * BariUnit /\ bariLabel = "ELEVATED"

\* C14: the displayed score and the displayed status agree with the README
\* table: 0-29 ALL CLEAR, 30-54 ELEVATED, 55-79 HIGH RISK, 80-100 CRITICAL.
C14_ScoreAgreesWithTable ==
  /\ bariPct \in 0..29 <=> bariLabel = "ALL CLEAR"
  /\ bariPct \in 30..54 <=> bariLabel = "ELEVATED"
  /\ bariPct \in 55..79 <=> bariLabel = "HIGH RISK"
  /\ bariPct \in 80..100 <=> bariLabel = "CRITICAL"

\* C15: an auto-alert enters the log only from an evaluation that saw
\* maxDelta > 4.5, with level CRITICAL exactly when that maxDelta > 7 and
\* WARNING otherwise; an evaluation queues an auto-alert only when the maxDelta
\* of the temps it looked at exceeds 4.5.
C15_AutoAlertThresholds ==
  [][Render =>
       /\ \A k \in (Len(emitted) + 1)..Len(emitted') :
            IsAuto(emitted'[k]) =>
              /\ AutoPending
              /\ qAlerts[1].maxDelta > AlertDelta
              /\ emitted'[k].lvl = "CRITICAL" <=> qAlerts[1].maxDelta > CriticalDelta
       /\ \A k \in 1..Len(qAlerts') :
            /\ qAlerts'[k].kind = "auto"
            /\ qAlerts'[k].maxDelta = MaxDeltaRaw(temps')
            /\ MaxDeltaRaw(temps') > AlertDelta
       /\ (qTicks # <<>> /\ MaxDeltaRaw(temps') <= AlertDelta) => qAlerts' = <<>>]_vars

C15_Witness ==
  /\ \E k \in 1..Len(emitted) : emitted[k].lvl = "WARNING"
  /\ \E k \in 1..Len(emitted) : emitted[k].lvl = "CRITICAL"

\* C16: a breach that was induced and not cleared by clearAll is in the active
\* set during the first 55 seconds after its creation.
C16_ActiveFirst55Seconds ==
  \A b \in created :
    (b.id \notin clearedIds /\ now - b.t < DurMin) => b.id \in ActiveIds

Dev(ts, i) == Abs(ts[i] - Baseline(i))

C18_RisesWhileActive ==
  [][(Render /\ qTicks # <<>>) =>
       \A k \in 1..Len(breaches) :
         LET b == breaches[k]
         IN (/\ qTicks[1].at - b.t < b.dur
             /\ temps[b.pos] < Baseline(b.pos) + b.int - Eps)
            => temps'[b.pos] > temps[b.pos]]_vars

C18_Witness ==
  /\ Len(applied) >= 4
  /\ \E k \in 1..Len(breaches) :
       temps[breaches[k].pos] > Baseline(breaches[k].pos) + 900

\* C19 as stated: at every tick applied after a breach was induced and with no
\* breach live any more, no sensor's distance from its baseline increases.
C19_NeverIncreases ==
  [][(Render /\ qTicks # <<>> /\ qTicks[1].live = <<>> /\ created # {}) =>
       \A i \in DOMAIN temps : Dev(temps', i) <= Dev(temps, i)]_vars

\* C19 amended: at every tick applied after a breach was induced and with no
\* breach live any more, a sensor further than the noise bound (0.1) from its
\* baseline does not move further away, and a sensor within the noise bound
\* stays within it.
C19_RelaxesToNoiseBand ==
  [][(Render /\ qTicks # <<>> /\ qTicks[1].live = <<>> /\ created # {}) =>
       \A i \in DOMAIN temps :
         /\ Dev(temps, i) > NoiseBound => Dev(temps', i) <= Dev(temps, i)
         /\ Dev(temps, i) <= NoiseBound => Dev(temps', i) <= NoiseBound]_vars

C19_Witness ==
  /\ clearedIds # {}
  /\ breaches = <<>>
  /\ applied # <<>>
  /\ applied[Len(applied)].live = <<>>
  /\ Dev(temps, 32) > 100
  /\ Dev(temps, 100) <= NoiseBound

HeatedTicks(b) ==
  Cardinality({k \in 1..Len(applied) :
                 \E m \in 1..Len(applied[k].live) : applied[k].live[m].id = b.id})

\* C20: the baseline state is classified ALL CLEAR, and once five ticks have
\* been applied with a breach of intensity 12 and width 5 at sensor 32 live,
\* sensor 32 reads above 23, thermalScore is positive and the classification
\* is ELEVATED or higher.
C20_ScenarioReachesElevated ==
  /\ created = {} => bariLabel = "ALL CLEAR"
  /\ \A k \in 1..Len(breaches) :
       LET b == breaches[k]
       IN (b.pos = 32 /\ b.int = 1200 /\ b.w = 5 /\ HeatedTicks(b) >= 5)
          => /\ temps[32] > 2300
             /\ thermalScore > 0
             /\ bariLabel # "ALL CLEAR"

C20_Witness ==
  /\ \E k \in 1..Len(breaches) : HeatedTicks(breaches[k]) >= 5
  /\ temps[32] > 2300
  /\ bariLabel \in {"ELEVATED", "HIGH RISK", "CRITICAL"}

\* the peak delta the display showed after the k-th applied tick
MaxDeltaAfter(k) == MaxDeltaRaw(FoldTemps(SubSeq(applied, 1, k), baselineRef))

\* C22: whenever an auto-alert is in the history, the peak delta was above the
\* detection threshold after every tick applied in the 15 seconds before the
\* alert's timestamp.
C22_SustainedBeforeAlert ==
  \A n \in 1..Len(emitted) :
    IsAuto(emitted[n]) =>
      \A k \in 1..Len(applied) :
        (applied[k].at > emitted[n].ts - SustainMs /\ applied[k].at <= emitted[n].ts)
          => MaxDeltaAfter(k) > AlertDelta

ClearPending == \E k \in 1..Len(qBreaches) : qBreaches[k].kind = "clear"

\* C24: once the render of a clearAll has happened, no breach that existed
\* when clearAll was called is in the active set, in every interleaving of
\* clearAll, renders and interval callbacks.
C24_ClearedNeverReturns ==
  ~ClearPending => ActiveIds \cap clearedIds = {}

\* a render appends the auto-alert that the previous evaluation queued
AppendsAuto ==
  /\ AutoPending
  /\ Render
  /\ Len(emitted') > Len(emitted)
  /\ IsAuto(emitted'[Len(emitted) + 1])

\* C25 as stated: an auto-alert is appended only when the evaluation that
\* queued it ran with at least one breach in the active set.
C25_AutoOnlyWhileActive ==
  [][AppendsAuto => breaches # <<>>]_vars

\* C25 amended: an auto-alert is appended only after a breach was induced and
\* only from an evaluation whose readings had maxDelta > 4.5; the active set
\* may be empty at that evaluation.
C25_AutoOnlyAfterBreach ==
  [][AppendsAuto => (created # {} /\ MaxDeltaRaw(temps) > AlertDelta)]_vars

C25_Witness ==
  /\ Quiet
  /\ emitted # <<>>
  /\ IsAuto(Last(emitted))
  /\ Last(emitted).ts = now
  /\ breaches = <<>>
  /\ clearedIds = {}
  /\ created # {}

Hot == Excursion(temps)

HeadAuto == alerts # <<>> /\ IsAuto(alerts[1])

\* a tick waits for its render while the newest alert is at least 9 s old
TickAfterWindow ==
  /\ qTicks # <<>>
  /\ qAlerts = <<>>
  /\ alerts # <<>>
  /\ now - alerts[1].ts >= SuppressMs

C27_StatusAgreesWithLabel ==
  /\ sysStatus = "NOMINAL" <=> bariLabel = "ALL CLEAR"
  /\ sysStatus = "ELEVATED" <=> bariLabel = "ELEVATED"
  /\ sysStatus = "BREACH DETECTED" <=> bariLabel \in {"HIGH RISK", "CRITICAL"}

\* C28: the head of the log is the most recently emitted alert, and the
\* timestamps of the log do not increase from head to tail.
C28_LogNewestFirst ==
  /\ emitted # <<>> => (alerts # <<>> /\ alerts[1] = Last(emitted))
  /\ \A k \in 1..(Len(alerts) - 1) : alerts[k].ts >= alerts[k + 1].ts

C28_Witness ==
  /\ Len(alerts) >= 3
  /\ alerts[1].ts > alerts[2].ts
  /\ alerts[2].ts > alerts[Len(alerts)].ts
  /\ IsAuto(alerts[1])

\* C29: every alert a render appends has an id that is not in the
\* acknowledged set after that render, also when acknowledged alerts have been
\* evicted from the log.
C29_NewAlertUnacked ==
  [][Render =>
       \A k \in (Len(emitted) + 1)..Len(emitted') : emitted'[k].id \notin acked']_vars

C29_Witness ==
  /\ acked # {}
  /\ \A id \in acked : \A k \in 1..Len(alerts) : alerts[k].id # id
  /\ Len(emitted) > LogKeep + 1
  /\ \A id \in acked : Last(emitted).id > id

\* C30: the sensor, pressure and rack-power arrays change only in the render
\* of a tick: induce, clearAll and the renders of their updates leave them as
\* they are, so the heat of a breach appears with the first tick after it and
\* stays after clearAll until ticks relax it.
C30_ReadingsChangeOnlyInTick ==
  [][(temps' # temps \/ dpArr' # dpArr \/ rackPwr' # rackPwr)
       => (Render /\ qTicks # <<>>)]_vars

C30_Witness ==
  /\ Quiet
  /\ clearedIds # {}
  /\ breaches = <<>>
  /\ applied # <<>>
  /\ Last(applied).live # <<>>
  /\ Excursion(temps)

\* C21: the wizard's step counter stays within 0..7 and, once rendered, equals
\* the number of Next actions of the run; the test breach is induced at most
\* once per run, and exactly once when the run has passed step 3.
C21_WizardStepsOnce ==
  /\ cxStep \in 0..7
  /\ qCx = <<>> => cxStep = cxNexts
  /\ cxInduced <= 1
  /\ (qCx = <<>> /\ cxStep > 3) => cxInduced = 1

====
